---- MODULE Spec2Model ----
(***************************************************************************)
(* Model of the OpenAI run viewer (src/src/artifacts/index.jsx): the React *)
(* state of OpenAIAssistantDebugger, the asynchronous fetchRunData, the    *)
(* timeline builder prepareTimelineData and the click handling of          *)
(* WaterfallTimeline.                                                      *)
(*                                                                         *)
(* Timestamps are epoch seconds on the wire and milliseconds once stored.  *)
(* JavaScript null is the out-of-band integer NULL; ToNumber and Truthy    *)
(* give the coercions the source relies on.                                *)
(***************************************************************************)
EXTENDS Integers, Sequences, FiniteSets, TLC

VARIABLES runData, loading, error, debugInfo, selectedStepIndex,
          scrollTarget, fetches, timelineData, clicked, formatted, rendered

vars == <<runData, loading, error, debugInfo, selectedStepIndex,
          scrollTarget, fetches, timelineData, clicked, formatted, rendered>>

\* ---------------------------------------------------------------- bounds
\* Largest step list and latest epoch second of the timeline specification.
MaxSteps == 2
MaxTime == 3
\* The same two bounds for the overlap specification, whose step lists are
\* long enough for a step to outlast two later ones.
OverlapSteps == 3
OverlapTime == 3
\* The same two bounds for the application specification.
AppMaxSteps == 1
AppMaxTime == 1
\* Cap on fetches in flight (the trigger's own guard keeps it at one).
MaxFetches == 2
\* Largest step list and latest epoch second of the selection specification.
SelectSteps == 2
SelectTime == 2
\* Largest step list and latest epoch second of the label specification.
LabelSteps == 2
LabelTime == 1
\* Largest step list and latest epoch second of the liveness specification.
LiveSteps == 0
LiveTime == 2
\* Longest duration, in milliseconds, handed to formatDuration.
MaxDurationMs == 120000

\* ------------------------------------------------------- JavaScript values
\* null / undefined of a numeric or index slot
NULL == -999
\* runData === null, and a run body that did not decode
NullRun == [null |-> TRUE]
\* debugInfo === null (the code never stores an object without keys)
NullInfo == {}
\* error === null (every stored message is non-empty)
NoError == ""
\* the index given to gap segments
GapIndex == -1

\* truthiness of a number-or-null, as in `x ? a : b`
Truthy(x) == x # NULL /\ x # 0
\* numeric coercion of a number-or-null, as in `x < y` and `x - y`
ToNumber(x) == IF x = NULL THEN 0 ELSE x

ErrRequired == "Run ID, Thread ID, and API Key are required"
ErrRun == "Error: Error fetching run details"
ErrSteps == "Error: Error fetching run steps"
ErrType == "Error: Cannot read properties of null"

\* ------------------------------------------------------------ wire values
\* Values of the three required form fields that matter to validation.
Strs == {"", "id"}
\* step.type values of the data source; "" is an absent type
Types == {"tool_calls"}

Times(T) == 1..T
Ends(T) == {NULL} \cup (1..T)
\* Date.now() at the moment a fetch completes: later than every timestamp
\* the data source has handed out.
Nows(T) == {T * 1000 + 500, (T + 1) * 1000}
\* line 428 reads the clock only for a decoded run without a truthy end
NowsFor(runInfo, T) ==
  IF runInfo # NullRun /\ ~Truthy(runInfo.completed_at) THEN Nows(T) ELSE {NULL}

\* The run record of the first response.
RunInfos(T) == [created_at : Times(T), completed_at : Ends(T)]

\* stepsData.data: every list of at most n steps; id is the position in the
\* response, which identifies a step after sorting.
StepListsOfLen(n, T) ==
  { [i \in 1..n |-> [id |-> i, created_at |-> f[i][1],
                     completed_at |-> f[i][2], type |-> f[i][3]]] :
      f \in [1..n -> Times(T) \X Ends(T) \X Types] }
StepLists(n, T) == UNION { StepListsOfLen(k, T) : k \in 0..n }

\* step.type as the data source may send it: the two documented types and
\* an absent one
StepTypes == {"tool_calls", "message_creation", ""}
\* The step lists above with every assignment of these types.
TypedStepLists(n, T) ==
  UNION { { [i \in 1..k |-> [data[i] EXCEPT !.type = g[i]]] :
              data \in StepListsOfLen(k, T), g \in [1..k -> StepTypes] } :
          k \in 0..n }

\* ------------------------------------------------------------ fetchRunData
\* lines 412-417: seconds to milliseconds; a falsy end stays null
transformedSteps(data) ==
  [i \in 1..Len(data) |->
     [id |-> data[i].id, type |-> data[i].type,
      created_at |-> data[i].created_at,
      started_at |-> data[i].created_at * 1000,
      completed_at |-> IF Truthy(data[i].completed_at)
                       THEN data[i].completed_at * 1000 ELSE NULL]]

\* Mutant of insertSorted: x goes in front of the elements that compare
\* equal to it, as an unstable sort may place it.
RECURSIVE insertSorted_Unstable(_, _)
insertSorted_Unstable(s, x) ==
  IF s = <<>> THEN <<x>>
  ELSE IF s[Len(s)].created_at - x.created_at < 0 THEN Append(s, x)
  ELSE Append(insertSorted_Unstable(SubSeq(s, 1, Len(s) - 1), x), s[Len(s)])

\* Insert x behind every element that does not compare greater than it.
RECURSIVE insertSorted(_, _)
insertSorted(s, x) ==
  IF s = <<>> THEN <<x>>
  ELSE IF s[Len(s)].created_at - x.created_at <= 0 THEN Append(s, x)
  ELSE Append(insertSorted(SubSeq(s, 1, Len(s) - 1), x), s[Len(s)])

\* line 420: Array.prototype.sort with (a, b) => a.created_at - b.created_at,
\* a stable sort.
RECURSIVE sortSteps(_)
sortSteps(s) ==
  IF s = <<>> THEN <<>>
  ELSE insertSorted(sortSteps(SubSeq(s, 1, Len(s) - 1)), s[Len(s)])

\* lines 422-430
processedData(runInfo, data, now) ==
  [started_at |-> runInfo.created_at * 1000,
   completed_at |-> IF Truthy(runInfo.completed_at)
                    THEN runInfo.completed_at * 1000 ELSE now,
   steps |-> sortSteps(transformedSteps(data))]

\* ---------------------------------------------------------- formatDuration
\* No call of formatDuration yet; later the argument and the text returned.
NoFormat == [ms |-> NULL, text |-> "", done |-> FALSE]

\* Number.prototype.toFixed(1) of ms / 1000 picks the tenth nearest to the
\* double, and the larger one on an exact tie.  For an integer ms the two
\* tenths are equally near only when ms % 100 = 50; these are the ms in
\* 1000..59999 whose double ms / 1000 lies below that midpoint (the others
\* lie above it or, for ms % 1000 in {250, 750}, exactly on it).
ToFixedRoundsDown ==
  {
   1150, 1450, 1650, 1950, 2050, 2150, 2550, 2650, 3050, 3150,
   3550, 3650, 4050, 4350, 4550, 4850, 5050, 5350, 5550, 5850,
   6050, 6350, 6550, 6850, 7050, 7350, 7550, 7850, 8350, 8450,
   8850, 8950, 9350, 9450, 9850, 9950, 10350, 10450, 10850, 10950,
   11350, 11450, 11850, 11950, 12350, 12450, 12850, 12950, 13350, 13450,
   13850, 13950, 14350, 14450, 14850, 14950, 15350, 15450, 15850, 15950,
   16150, 16450, 16650, 16950, 17150, 17450, 17650, 17950, 18150, 18450,
   18650, 18950, 19150, 19450, 19650, 19950, 20150, 20450, 20650, 20950,
   21150, 21450, 21650, 21950, 22150, 22450, 22650, 22950, 23150, 23450,
   23650, 23950, 24150, 24450, 24650, 24950, 25150, 25450, 25650, 25950,
   26150, 26450, 26650, 26950, 27150, 27450, 27650, 27950, 28150, 28450,
   28650, 28950, 29150, 29450, 29650, 29950, 30150, 30450, 30650, 30950,
   31150, 31450, 31650, 31950, 32050, 32150, 32550, 32650, 33050, 33150,
   33550, 33650, 34050, 34150, 34550, 34650, 35050, 35150, 35550, 35650,
   36050, 36150, 36550, 36650, 37050, 37150, 37550, 37650, 38050, 38150,
   38550, 38650, 39050, 39150, 39550, 39650, 40050, 40150, 40550, 40650,
   41050, 41150, 41550, 41650, 42050, 42150, 42550, 42650, 43050, 43150,
   43550, 43650, 44050, 44150, 44550, 44650, 45050, 45150, 45550, 45650,
   46050, 46150, 46550, 46650, 47050, 47150, 47550, 47650, 48050, 48150,
   48550, 48650, 49050, 49150, 49550, 49650, 50050, 50150, 50550, 50650,
   51050, 51150, 51550, 51650, 52050, 52150, 52550, 52650, 53050, 53150,
   53550, 53650, 54050, 54150, 54550, 54650, 55050, 55150, 55550, 55650,
   56050, 56150, 56550, 56650, 57050, 57150, 57550, 57650, 58050, 58150,
   58550, 58650, 59050, 59150, 59550, 59650
  }

\* line 31: totalSeconds.toFixed(1)
toFixed1(ms) ==
  LET n == IF ms \in ToFixedRoundsDown THEN ms \div 100
           ELSE (ms + 50) \div 100
  IN ToString(n \div 10) \o "." \o ToString(n % 10)

\* line 35: Math.floor(totalSeconds / 60)
minutesOf(ms) == ms \div 60000

\* Mutant of secondsOf: the remainder is truncated, not rounded.
secondsOf_Floor(ms) == (ms % 60000) \div 1000

\* line 36: Math.round(totalSeconds % 60), halves rounded up
secondsOf(ms) == ((ms % 60000) + 500) \div 1000

\* lines 17-40; ms is an integer or NULL (null, undefined and NaN alike
\* take the first return, and so does 0, which is falsy)
formatDuration(ms) ==
  IF ~Truthy(ms) THEN "N/A"
  ELSE IF ms < 1000 THEN ToString(ms) \o "ms"
  ELSE IF ms < 60000
    THEN (IF ms % 1000 = 0 THEN ToString(ms \div 1000) ELSE toFixed1(ms)) \o "s"
  ELSE IF secondsOf(ms) > 0
    THEN ToString(minutesOf(ms)) \o "m " \o ToString(secondsOf(ms)) \o "s"
  ELSE ToString(minutesOf(ms)) \o "m"

\* ----------------------------------------------------- prepareTimelineData
\* A segment carries the fields of lines 213-220 and 232-240 except
\* durationLabel, the text formatDuration makes of its duration; a gap has
\* no isSelected field.
gapSegment(start, end) ==
  [name |-> "<unknown>", actualStart |-> start, duration |-> end - start,
   actualEnd |-> end, index |-> GapIndex, isGap |-> TRUE]

\* lines 208-223
initialGap(rd) ==
  IF rd.steps[1].started_at > rd.started_at
  THEN <<gapSegment(0, rd.steps[1].started_at - rd.started_at)>>
  ELSE <<>>

\* Mutant of stepSegment: the label counts from zero.
stepSegment_LabelFromZero(rd, sel, i) ==
  LET step == rd.steps[i]
      actualStart == step.started_at - rd.started_at
      actualEnd == IF Truthy(step.completed_at)
                   THEN step.completed_at - rd.started_at
                   ELSE rd.completed_at - rd.started_at
  IN [name |-> ToString(i - 1) \o ". "
                \o (IF step.type # "" THEN step.type ELSE "Unknown"),
      actualStart |-> actualStart, duration |-> actualEnd - actualStart,
      actualEnd |-> actualEnd, index |-> i - 1,
      isSelected |-> (sel = i - 1), isGap |-> FALSE]

\* Mutant of stepSegment: the selection is compared with the 1-based
\* position.
stepSegment_OneBased(rd, sel, i) ==
  LET step == rd.steps[i]
      actualStart == step.started_at - rd.started_at
      actualEnd == IF Truthy(step.completed_at)
                   THEN step.completed_at - rd.started_at
                   ELSE rd.completed_at - rd.started_at
  IN [name |-> ToString(i) \o ". "
                \o (IF step.type # "" THEN step.type ELSE "Unknown"),
      actualStart |-> actualStart, duration |-> actualEnd - actualStart,
      actualEnd |-> actualEnd, index |-> i - 1,
      isSelected |-> (sel = i), isGap |-> FALSE]

\* lines 228-241; i is the 1-based position, index the 0-based one
stepSegment(rd, sel, i) ==
  LET step == rd.steps[i]
      actualStart == step.started_at - rd.started_at
      actualEnd == IF Truthy(step.completed_at)
                   THEN step.completed_at - rd.started_at
                   ELSE rd.completed_at - rd.started_at
  IN [name |-> ToString(i) \o ". "
                \o (IF step.type # "" THEN step.type ELSE "Unknown"),
      actualStart |-> actualStart, duration |-> actualEnd - actualStart,
      actualEnd |-> actualEnd, index |-> i - 1,
      isSelected |-> (sel = i - 1), isGap |-> FALSE]

\* Mutant of gapAfter: the comparison of line 245 is not strict.
gapAfter_NonStrict(rd, i) ==
  IF i < Len(rd.steps)
     /\ ToNumber(rd.steps[i].completed_at) <= rd.steps[i + 1].started_at
  THEN <<gapSegment(ToNumber(rd.steps[i].completed_at) - rd.started_at,
                    rd.steps[i + 1].started_at - rd.started_at)>>
  ELSE <<>>

\* lines 243-259
gapAfter(rd, i) ==
  IF i < Len(rd.steps)
     /\ ToNumber(rd.steps[i].completed_at) < rd.steps[i + 1].started_at
  THEN <<gapSegment(ToNumber(rd.steps[i].completed_at) - rd.started_at,
                    rd.steps[i + 1].started_at - rd.started_at)>>
  ELSE <<>>

\* Mutant of forEachStep: the steps are visited from the last to the first.
RECURSIVE forEachStep_Reversed(_, _, _)
forEachStep_Reversed(rd, sel, i) ==
  IF i > Len(rd.steps) THEN <<>>
  ELSE forEachStep_Reversed(rd, sel, i + 1)
       \o <<stepSegment(rd, sel, i)>> \o gapAfter(rd, i)

\* lines 226-260: the forEach over runData.steps
RECURSIVE forEachStep(_, _, _)
forEachStep(rd, sel, i) ==
  IF i > Len(rd.steps) THEN <<>>
  ELSE <<stepSegment(rd, sel, i)>> \o gapAfter(rd, i)
       \o forEachStep(rd, sel, i + 1)

\* Mutant of trailingGap: the gap up to the run's end is never added.
trailingGap_Never(rd) == <<>>

\* lines 262-277
trailingGap(rd) ==
  LET lastStep == rd.steps[Len(rd.steps)]
  IN IF ToNumber(lastStep.completed_at) < rd.completed_at
     THEN <<gapSegment(ToNumber(lastStep.completed_at) - rd.started_at,
                       rd.completed_at - rd.started_at)>>
     ELSE <<>>

\* Mutant of prepareTimelineData: the selection is read from the last click
\* rather than from the selected index handed in.
prepareTimelineData_ReadsClick(rd, sel) ==
  IF rd = NullRun \/ Len(rd.steps) = 0 THEN <<>>
  ELSE initialGap(rd) \o forEachStep(rd, clicked, 1) \o trailingGap(rd)

\* Mutant of prepareTimelineData: a run without steps is drawn as one gap
\* over its whole duration.
prepareTimelineData_GapForEmpty(rd, sel) ==
  IF rd = NullRun THEN <<>>
  ELSE IF Len(rd.steps) = 0
    THEN <<gapSegment(0, rd.completed_at - rd.started_at)>>
  ELSE initialGap(rd) \o forEachStep(rd, sel, 1) \o trailingGap(rd)

\* lines 201-280
prepareTimelineData(rd, sel) ==
  IF rd = NullRun \/ Len(rd.steps) = 0 THEN <<>>
  ELSE initialGap(rd) \o forEachStep(rd, sel, 1) \o trailingGap(rd)

\* ------------------------------------------------------- renderStepDetails
\* step.step_details is absent (line 456)
NoDetails == [absent |-> TRUE]
\* details.type: the two documented types, another one, an absent one
DetailTypes == {"tool_calls", "message_creation", "other", ""}
\* details.tool_calls: absent (undefined or null), an empty array, an array
\* of tool calls, or a truthy value that is not an array
ToolCallShapes == {"absent", "empty", "list", "malformed"}
\* details.message_creation: absent, an object with a message_id, an object
\* without one, or a truthy value that is not an object (a number)
MessageShapes == {"absent", "reference", "noid", "malformed"}
\* The payloads renderStepDetails may be handed.
DetailPayloads ==
  [type : DetailTypes, tool_calls : ToolCallShapes,
   message_creation : MessageShapes]

\* No call of renderStepDetails yet; later the payload, the branch taken
\* and the message id shown.
NoRender == [details |-> NoDetails, kind |-> "", text |-> "", done |-> FALSE]

\* truthiness of a sub-field, as in `details.tool_calls && ...`
Present(shape) == shape # "absent"
\* Array.isArray (line 464)
IsArray(shape) == shape \in {"empty", "list"}
\* line 555: message_id || 'Unknown Message ID'
messageIdText(shape) ==
  IF shape = "reference" THEN "msg_1" ELSE "Unknown Message ID"

\* Mutant of renderStepDetails: any truthy tool_calls is taken for a list.
renderStepDetails_NoArrayCheck(details) ==
  IF details = NoDetails
  THEN [kind |-> "NoDetails", text |-> "No step details available"]
  ELSE IF details.type = "tool_calls" /\ Present(details.tool_calls)
    THEN [kind |-> "ToolCalls", text |-> ""]
  ELSE IF details.type = "message_creation"
          /\ Present(details.message_creation)
    THEN [kind |-> "MessageCreation",
          text |-> messageIdText(details.message_creation)]
  ELSE [kind |-> "Unknown", text |-> ""]

\* lines 454-569: the branch taken and, for a message, the id shown
renderStepDetails(details) ==
  IF details = NoDetails
  THEN [kind |-> "NoDetails", text |-> "No step details available"]
  ELSE IF details.type = "tool_calls" /\ Present(details.tool_calls)
          /\ IsArray(details.tool_calls)
    THEN [kind |-> "ToolCalls", text |-> ""]
  ELSE IF details.type = "message_creation"
          /\ Present(details.message_creation)
    THEN [kind |-> "MessageCreation",
          text |-> messageIdText(details.message_creation)]
  ELSE [kind |-> "Unknown", text |-> ""]

\* ------------------------------------------------------------- bar colours
\* line 101: the range of the ordinal scale
palette == <<"#8884d8", "#82ca9d", "#ffc658", "#ff8042", "#0088fe">>

\* line 100: the domain of the ordinal scale, the index of every segment
\* (the -1 of gaps included) in order of first appearance, each once
RECURSIVE scaleDomain(_)
scaleDomain(S) ==
  IF S = <<>> THEN <<>>
  ELSE LET front == scaleDomain(SubSeq(S, 1, Len(S) - 1))
       IN IF \E j \in 1..Len(front) : front[j] = S[Len(S)].index
          THEN front ELSE Append(front, S[Len(S)].index)

\* lines 99-101: colorScale(x), the range entry at x's place in the domain,
\* the range repeating
colorScale(S, x) ==
  LET dom == scaleDomain(S)
      j == CHOOSE k \in 1..Len(dom) : dom[k] = x
  IN palette[((j - 1) % Len(palette)) + 1]

\* lines 115-118: the fill of the p-th bar
barFill(S, p) ==
  IF S[p].isGap THEN "#e0e0e0"
  ELSE IF S[p].isSelected THEN "#ff0000"
  ELSE colorScale(S, S[p].index)

\* line 758: the companion list marks the step at 0-based position i
listHighlight(i) == selectedStepIndex = i

\* ----------------------------------------------------------------- state
Init ==
  /\ runData = NullRun
  /\ loading = FALSE
  /\ error = NoError
  /\ debugInfo = NullInfo
  /\ selectedStepIndex = NULL
  /\ scrollTarget = NULL
  /\ fetches = <<>>
  /\ timelineData = <<>>
  /\ clicked = NULL
  /\ formatted = NoFormat
  /\ rendered = NoRender

\* Every state change re-renders: line 451.
Render == timelineData' = prepareTimelineData(runData', selectedStepIndex')

RemoveAt(s, i) == SubSeq(s, 1, i - 1) \o SubSeq(s, i + 1, Len(s))

\* Mutant of fetchEnds: the failure escapes, nothing is reported.
fetchEnds_NoCatch(i, msg) ==
  /\ error' = error
  /\ loading' = FALSE
  /\ fetches' = RemoveAt(fetches, i)

\* Mutant of fetchEnds: there is no finally block.
fetchEnds_NoFinally(i, msg) ==
  /\ error' = IF msg = NoError THEN error ELSE msg
  /\ loading' = loading
  /\ fetches' = RemoveAt(fetches, i)

\* A fetch ends: catch (lines 433-435) when msg is an error, then finally.
fetchEnds(i, msg) ==
  /\ error' = IF msg = NoError THEN error ELSE msg
  /\ loading' = FALSE
  /\ fetches' = RemoveAt(fetches, i)

\* Mutant of fetchRunData: loading is not raised before the first request.
fetchRunData_LoadsLate ==
  /\ ~loading
  /\ Len(fetches) < MaxFetches
  /\ \E runId \in Strs, threadId \in Strs, apiKey \in Strs, debugMode \in BOOLEAN :
       IF runId = "" \/ threadId = "" \/ apiKey = ""
       THEN /\ error' = ErrRequired
            /\ UNCHANGED <<loading, debugInfo, fetches>>
       ELSE /\ loading' = loading
            /\ error' = NoError
            /\ debugInfo' = IF debugMode THEN {"runUrl"} ELSE NullInfo
            /\ fetches' = Append(fetches, [pc |-> "run", debugMode |-> debugMode,
                                           runInfo |-> NullRun])
  /\ clicked' = NULL
  /\ UNCHANGED <<runData, selectedStepIndex, scrollTarget>>
  /\ Render
  /\ UNCHANGED <<formatted, rendered>>

\* Mutant of fetchRunData: the run on display is dropped when a fetch
\* starts.
fetchRunData_ClearsRun ==
  /\ ~loading
  /\ Len(fetches) < MaxFetches
  /\ \E runId \in Strs, threadId \in Strs, apiKey \in Strs, debugMode \in BOOLEAN :
       IF runId = "" \/ threadId = "" \/ apiKey = ""
       THEN /\ error' = ErrRequired
            /\ UNCHANGED <<runData, loading, debugInfo, fetches>>
       ELSE /\ loading' = TRUE
            /\ error' = NoError
            /\ runData' = NullRun
            /\ debugInfo' = IF debugMode THEN {"runUrl"} ELSE NullInfo
            /\ fetches' = Append(fetches, [pc |-> "run", debugMode |-> debugMode,
                                           runInfo |-> NullRun])
  /\ clicked' = NULL
  /\ UNCHANGED <<selectedStepIndex, scrollTarget>>
  /\ Render
  /\ UNCHANGED <<formatted, rendered>>

\* Mutant of fetchRunData: the button stays enabled while loading.
fetchRunData_NoGuard ==
  /\ Len(fetches) < MaxFetches
  /\ \E runId \in Strs, threadId \in Strs, apiKey \in Strs, debugMode \in BOOLEAN :
       IF runId = "" \/ threadId = "" \/ apiKey = ""
       THEN /\ error' = ErrRequired
            /\ UNCHANGED <<loading, debugInfo, fetches>>
       ELSE /\ loading' = TRUE
            /\ error' = NoError
            /\ debugInfo' = IF debugMode THEN {"runUrl"} ELSE NullInfo
            /\ fetches' = Append(fetches, [pc |-> "run", debugMode |-> debugMode,
                                           runInfo |-> NullRun])
  /\ clicked' = NULL
  /\ UNCHANGED <<runData, selectedStepIndex, scrollTarget>>
  /\ Render
  /\ UNCHANGED <<formatted, rendered>>

\* Mutant of fetchRunData: loading and the debug record are reset before
\* the inputs are validated.
fetchRunData_LoadsFirst ==
  /\ ~loading
  /\ Len(fetches) < MaxFetches
  /\ \E runId \in Strs, threadId \in Strs, apiKey \in Strs, debugMode \in BOOLEAN :
       IF runId = "" \/ threadId = "" \/ apiKey = ""
       THEN /\ error' = ErrRequired
            /\ loading' = TRUE
            /\ debugInfo' = NullInfo
            /\ UNCHANGED fetches
       ELSE /\ loading' = TRUE
            /\ error' = NoError
            /\ debugInfo' = IF debugMode THEN {"runUrl"} ELSE NullInfo
            /\ fetches' = Append(fetches, [pc |-> "run", debugMode |-> debugMode,
                                           runInfo |-> NullRun])
  /\ clicked' = NULL
  /\ UNCHANGED <<runData, selectedStepIndex, scrollTarget>>
  /\ Render
  /\ UNCHANGED <<formatted, rendered>>

\* Click on the fetch button (lines 618-620), running fetchRunData up to
\* its first await (lines 282-317).
fetchRunData ==
  /\ ~loading
  /\ Len(fetches) < MaxFetches
  /\ \E runId \in Strs, threadId \in Strs, apiKey \in Strs, debugMode \in BOOLEAN :
       IF runId = "" \/ threadId = "" \/ apiKey = ""
       THEN /\ error' = ErrRequired
            /\ UNCHANGED <<loading, debugInfo, fetches>>
       ELSE /\ loading' = TRUE
            /\ error' = NoError
            /\ debugInfo' = IF debugMode THEN {"runUrl"} ELSE NullInfo
            /\ fetches' = Append(fetches, [pc |-> "run", debugMode |-> debugMode,
                                           runInfo |-> NullRun])
  /\ clicked' = NULL
  /\ UNCHANGED <<runData, selectedStepIndex, scrollTarget>>
  /\ Render
  /\ UNCHANGED <<formatted, rendered>>

\* The run request rejects (line 342).
runRejected(i) ==
  /\ fetches[i].pc = "run"
  /\ fetchEnds(i, ErrRun)
  /\ clicked' = NULL
  /\ UNCHANGED <<runData, debugInfo, selectedStepIndex, scrollTarget>>
  /\ Render
  /\ UNCHANGED <<formatted, rendered>>

\* The run request answers with a non-success status (lines 319-339).
runNotOk(i) ==
  /\ fetches[i].pc = "run"
  /\ debugInfo' = IF fetches[i].debugMode
                  THEN debugInfo \cup {"runStatus"} ELSE debugInfo
  /\ fetchEnds(i, ErrRun)
  /\ clicked' = NULL
  /\ UNCHANGED <<runData, selectedStepIndex, scrollTarget>>
  /\ Render
  /\ UNCHANGED <<formatted, rendered>>

\* The run request answers with success; info is the decoded body, NullRun
\* when the body was not JSON (lines 319-341), and the steps request is
\* issued (lines 348-381).
runOk(i, info) ==
  /\ fetches[i].pc = "run"
  /\ debugInfo' = IF fetches[i].debugMode
                  THEN debugInfo \cup {"runStatus", "stepsUrl"} ELSE debugInfo
  /\ fetches' = [fetches EXCEPT ![i] = [pc |-> "steps",
                                        debugMode |-> fetches[i].debugMode,
                                        runInfo |-> info]]
  /\ clicked' = NULL
  /\ UNCHANGED <<runData, loading, error, selectedStepIndex, scrollTarget>>
  /\ Render
  /\ UNCHANGED <<formatted, rendered>>

\* The steps request rejects (line 406).
stepsRejected(i) ==
  /\ fetches[i].pc = "steps"
  /\ fetchEnds(i, ErrSteps)
  /\ clicked' = NULL
  /\ UNCHANGED <<runData, debugInfo, selectedStepIndex, scrollTarget>>
  /\ Render
  /\ UNCHANGED <<formatted, rendered>>

\* The steps request answers with a non-success status (lines 383-403).
stepsNotOk(i) ==
  /\ fetches[i].pc = "steps"
  /\ debugInfo' = IF fetches[i].debugMode
                  THEN debugInfo \cup {"stepsStatus"} ELSE debugInfo
  /\ fetchEnds(i, ErrSteps)
  /\ clicked' = NULL
  /\ UNCHANGED <<runData, selectedStepIndex, scrollTarget>>
  /\ Render
  /\ UNCHANGED <<formatted, rendered>>

\* The steps request answers with success but a body that is not JSON:
\* stepsData.data throws (line 412).
stepsUndecoded(i) ==
  /\ fetches[i].pc = "steps"
  /\ debugInfo' = IF fetches[i].debugMode
                  THEN debugInfo \cup {"stepsStatus"} ELSE debugInfo
  /\ fetchEnds(i, ErrType)
  /\ clicked' = NULL
  /\ UNCHANGED <<runData, selectedStepIndex, scrollTarget>>
  /\ Render
  /\ UNCHANGED <<formatted, rendered>>

\* The steps request answers with success and a step list (lines 383-438).
\* With an undecoded run body, runInfo.id throws at line 423.
stepsOk(i, data, now) ==
  /\ fetches[i].pc = "steps"
  /\ debugInfo' = IF fetches[i].debugMode
                  THEN debugInfo \cup {"stepsStatus"} ELSE debugInfo
  /\ IF fetches[i].runInfo = NullRun
     THEN /\ fetchEnds(i, ErrType)
          /\ UNCHANGED runData
     ELSE /\ runData' = processedData(fetches[i].runInfo, data, now)
          /\ fetchEnds(i, NoError)
  /\ clicked' = NULL
  /\ UNCHANGED <<selectedStepIndex, scrollTarget>>
  /\ Render
  /\ UNCHANGED <<formatted, rendered>>

\* Mutant of scrollToStep: a click on the selected step deselects it.
scrollToStep_Toggle(index) ==
  /\ selectedStepIndex' = IF selectedStepIndex = index THEN NULL ELSE index
  /\ scrollTarget' = index

\* lines 441-449; every rendered step has its ref (line 757)
scrollToStep(index) ==
  /\ selectedStepIndex' = index
  /\ scrollTarget' = index

\* Mutant of onBarClick: the handler forwards every bar, gaps included.
onBarClick_NoGapCheck(k) ==
  /\ k \in 1..Len(timelineData)
  /\ clicked' = timelineData[k].index
  /\ selectedStepIndex' = timelineData[k].index
  /\ scrollTarget' = timelineData[k].index
  /\ UNCHANGED <<runData, loading, error, debugInfo, fetches>>
  /\ timelineData' = prepareTimelineData(runData', selectedStepIndex')
  /\ UNCHANGED <<formatted, rendered>>

\* Click on the k-th bar of the timeline (lines 122-124).
onBarClick(k) ==
  /\ k \in 1..Len(timelineData)
  /\ clicked' = timelineData[k].index
  /\ IF ~timelineData[k].isGap
     THEN scrollToStep(timelineData[k].index)
     ELSE UNCHANGED <<selectedStepIndex, scrollTarget>>
  /\ UNCHANGED <<runData, loading, error, debugInfo, fetches>>
  /\ Render
  /\ UNCHANGED <<formatted, rendered>>

RunRejected == \E i \in 1..Len(fetches) : runRejected(i)
RunNotOk == \E i \in 1..Len(fetches) : runNotOk(i)
RunOk ==
  \E i \in 1..Len(fetches) :
    /\ fetches[i].pc = "run"
    /\ \E info \in RunInfos(AppMaxTime) \cup {NullRun} : runOk(i, info)
StepsRejected == \E i \in 1..Len(fetches) : stepsRejected(i)
StepsNotOk == \E i \in 1..Len(fetches) : stepsNotOk(i)
StepsUndecoded == \E i \in 1..Len(fetches) : stepsUndecoded(i)
StepsOk ==
  \E i \in 1..Len(fetches) :
    /\ fetches[i].pc = "steps"
    /\ \E data \in StepLists(AppMaxSteps, AppMaxTime),
          now \in NowsFor(fetches[i].runInfo, AppMaxTime) : stepsOk(i, data, now)
BarClick == \E k \in 1..Len(timelineData) : onBarClick(k)

Next ==
  \/ fetchRunData
  \/ RunRejected
  \/ RunNotOk
  \/ RunOk
  \/ StepsRejected
  \/ StepsNotOk
  \/ StepsUndecoded
  \/ StepsOk
  \/ BarClick

Spec == Init /\ [][Next]_vars

\* ------------------------------------------------- liveness specification
\* The life of fetches alone, the button and the responses, with run
\* records and step lists within LiveSteps and LiveTime.
RunOkLive ==
  \E i \in 1..Len(fetches) :
    /\ fetches[i].pc = "run"
    /\ \E info \in RunInfos(LiveTime) \cup {NullRun} : runOk(i, info)
StepsOkLive ==
  \E i \in 1..Len(fetches) :
    /\ fetches[i].pc = "steps"
    /\ \E data \in StepLists(LiveSteps, LiveTime),
          now \in NowsFor(fetches[i].runInfo, LiveTime) : stepsOk(i, data, now)
\* Every request that was issued is answered or rejected in the end: as long
\* as a fetch is outstanding, one of its responses arrives.
Responds ==
  \/ RunRejected
  \/ RunNotOk
  \/ RunOkLive
  \/ StepsRejected
  \/ StepsNotOk
  \/ StepsUndecoded
  \/ StepsOkLive
NextLive == fetchRunData \/ Responds
SpecLive == Init /\ [][NextLive]_vars /\ WF_vars(Responds)

\* -------------------------------------------------- timeline specifications
\* The builder on every run and step list within given bounds: a fetch is
\* waiting for its steps response, with any decoded run record in hand, and
\* the response arrives.
AwaitingSteps(T) ==
  /\ runData = NullRun
  /\ loading = TRUE
  /\ error = NoError
  /\ debugInfo = NullInfo
  /\ selectedStepIndex = NULL
  /\ scrollTarget = NULL
  /\ \E info \in RunInfos(T) :
       fetches = <<[pc |-> "steps", debugMode |-> FALSE, runInfo |-> info]>>
  /\ timelineData = <<>>
  /\ clicked = NULL
  /\ formatted = NoFormat
  /\ rendered = NoRender

StepsArrive(n, T) ==
  \E i \in 1..Len(fetches) :
    /\ fetches[i].pc = "steps"
    /\ \E data \in StepLists(n, T), now \in NowsFor(fetches[i].runInfo, T) :
         stepsOk(i, data, now)

InitTimeline == AwaitingSteps(MaxTime)
StepsOkTimeline == StepsArrive(MaxSteps, MaxTime)
NextTimeline == StepsOkTimeline
SpecTimeline == InitTimeline /\ [][NextTimeline]_vars

InitOverlap == AwaitingSteps(OverlapTime)
StepsOkOverlap == StepsArrive(OverlapSteps, OverlapTime)
NextOverlap == StepsOkOverlap
SpecOverlap == InitOverlap /\ [][NextOverlap]_vars

\* ------------------------------------------------------ label specification
\* The same fetch, answered with step lists whose types vary.
InitLabel == AwaitingSteps(LabelTime)
StepsOkLabel ==
  \E i \in 1..Len(fetches) :
    /\ fetches[i].pc = "steps"
    /\ \E data \in TypedStepLists(LabelSteps, LabelTime),
          now \in NowsFor(fetches[i].runInfo, LabelTime) :
         stepsOk(i, data, now)
NextLabel == StepsOkLabel
SpecLabel == InitLabel /\ [][NextLabel]_vars

\* -------------------------------------------------- selection specification
\* A run has been loaded by a fetch without debug mode, with any run record
\* and step list within SelectSteps and SelectTime, and the user clicks
\* bars of its timeline.
InitSelect ==
  /\ \E info \in RunInfos(SelectTime) :
       \E data \in StepLists(SelectSteps, SelectTime),
          now \in NowsFor(info, SelectTime) :
         runData = processedData(info, data, now)
  /\ loading = FALSE
  /\ error = NoError
  /\ debugInfo = NullInfo
  /\ selectedStepIndex = NULL
  /\ scrollTarget = NULL
  /\ fetches = <<>>
  /\ clicked = NULL
  /\ timelineData = prepareTimelineData(runData, NULL)
  /\ formatted = NoFormat
  /\ rendered = NoRender

BarClickSelect == \E k \in 1..Len(timelineData) : onBarClick(k)
\* The component renders again for a reason other than a click (an input
\* of the form changes): line 451 invokes the builder once more.
Rerender ==
  /\ clicked' = NULL
  /\ UNCHANGED <<runData, loading, error, debugInfo, selectedStepIndex,
                 scrollTarget, fetches>>
  /\ Render
  /\ UNCHANGED <<formatted, rendered>>
NextSelect == BarClickSelect \/ Rerender
SpecSelect == InitSelect /\ [][NextSelect]_vars

\* ----------------------------------------------------- format specification
\* formatDuration on every duration up to MaxDurationMs and on null: the
\* argument is drawn at the start and the call returns its text.
DurationInputs == {NULL} \cup (0..MaxDurationMs)

InitFormat ==
  /\ runData = NullRun
  /\ loading = FALSE
  /\ error = NoError
  /\ debugInfo = NullInfo
  /\ selectedStepIndex = NULL
  /\ scrollTarget = NULL
  /\ fetches = <<>>
  /\ timelineData = <<>>
  /\ clicked = NULL
  /\ \E ms \in DurationInputs :
       formatted = [ms |-> ms, text |-> "", done |-> FALSE]
  /\ rendered = NoRender

Format ==
  /\ ~formatted.done
  /\ formatted' = [ms |-> formatted.ms, text |-> formatDuration(formatted.ms),
                   done |-> TRUE]
  /\ UNCHANGED <<runData, loading, error, debugInfo, selectedStepIndex,
                 scrollTarget, fetches, timelineData, clicked, rendered>>

NextFormat == Format
SpecFormat == InitFormat /\ [][NextFormat]_vars

\* ---------------------------------------------------- details specification
\* renderStepDetails on a step without details and on every payload.
InitDetails ==
  /\ runData = NullRun
  /\ loading = FALSE
  /\ error = NoError
  /\ debugInfo = NullInfo
  /\ selectedStepIndex = NULL
  /\ scrollTarget = NULL
  /\ fetches = <<>>
  /\ timelineData = <<>>
  /\ clicked = NULL
  /\ formatted = NoFormat
  /\ \E d \in DetailPayloads \cup {NoDetails} :
       rendered = [details |-> d, kind |-> "", text |-> "", done |-> FALSE]

RenderDetails ==
  /\ ~rendered.done
  /\ rendered' = [details |-> rendered.details,
                  kind |-> renderStepDetails(rendered.details).kind,
                  text |-> renderStepDetails(rendered.details).text,
                  done |-> TRUE]
  /\ UNCHANGED <<runData, loading, error, debugInfo, selectedStepIndex,
                 scrollTarget, fetches, timelineData, clicked, formatted>>
NextDetails == RenderDetails
SpecDetails == InitDetails /\ [][NextDetails]_vars

\* ------------------------------------------------------------ properties
Total(rd) == rd.completed_at - rd.started_at
Max0(x) == IF x < 0 THEN 0 ELSE x
StepPositions(S) == {q \in 1..Len(S) : ~S[q].isGap}
GapPositions(S) == {q \in 1..Len(S) : S[q].isGap}
SetMax(A) == CHOOSE x \in A : \A y \in A : y <= x
\* the stored step behind the step segment at position p
StepOf(p) == runData.steps[timelineData[p].index + 1]

\* A run with at least one step in which every step has a resolved end, is
\* an interval inside the run bounds, and ends no later than its successor
\* starts.
ValidSteps(rd) ==
  /\ rd # NullRun
  /\ Len(rd.steps) > 0
  /\ \A i \in 1..Len(rd.steps) :
       /\ rd.steps[i].completed_at # NULL
       /\ rd.started_at <= rd.steps[i].started_at
       /\ rd.steps[i].started_at <= rd.steps[i].completed_at
       /\ rd.steps[i].completed_at <= rd.completed_at
  /\ \A i \in 1..(Len(rd.steps) - 1) :
       /\ rd.steps[i].started_at <= rd.steps[i + 1].started_at
       /\ rd.steps[i].completed_at <= rd.steps[i + 1].started_at

\* C1: for a valid run (chronological, non-overlapping steps with resolved
\* ends inside the run bounds) the segments start at offset 0, end at
\* completed_at - started_at, are ordered by start offset, and each segment
\* ends where the next one starts.
C1_SegmentsCoverRun ==
  ValidSteps(runData) =>
    /\ timelineData # <<>>
    /\ timelineData[1].actualStart = 0
    /\ timelineData[Len(timelineData)].actualEnd = Total(runData)
    /\ \A k \in 1..(Len(timelineData) - 1) :
         /\ timelineData[k].actualEnd = timelineData[k + 1].actualStart
         /\ timelineData[k].actualStart <= timelineData[k + 1].actualStart

\* the shape of the spec's example: Step, Gap, Step, Gap on a valid run
C1_Witness ==
  /\ ValidSteps(runData)
  /\ Len(timelineData) = 4
  /\ ~timelineData[1].isGap /\ timelineData[2].isGap
  /\ ~timelineData[3].isGap /\ timelineData[4].isGap
  /\ timelineData[1].duration > 0

\* C2: a step with a null end yields a step segment ending at total, no gap
\* segment follows it, and it causes no negative start offset (steps start
\* inside the run).
C2_UnresolvedEndReachesTotal ==
  runData # NullRun =>
    /\ \A p \in StepPositions(timelineData) :
         StepOf(p).completed_at = NULL =>
           /\ timelineData[p].actualEnd = Total(runData)
           /\ \A q \in GapPositions(timelineData) : q < p
    /\ ( /\ \E i \in 1..Len(runData.steps) : runData.steps[i].completed_at = NULL
         /\ \A i \in 1..Len(runData.steps) :
              runData.steps[i].started_at >= runData.started_at )
       => \A q \in 1..Len(timelineData) : timelineData[q].actualStart >= 0

AllEndsResolved ==
  \A i \in 1..Len(runData.steps) : runData.steps[i].completed_at # NULL

\* C3: a gap stands before a step only if that step starts strictly after
\* the end offset of every earlier step.  Stated on runs whose steps all
\* have resolved ends, where the unresolved-end case of C2 plays no part.
C3_GapOnlyPastCursor ==
  (runData # NullRun /\ AllEndsResolved) =>
  \A p \in 2..Len(timelineData) :
    (timelineData[p - 1].isGap /\ ~timelineData[p].isGap) =>
      \A q \in StepPositions(timelineData) :
        q < p => timelineData[p].actualStart > timelineData[q].actualEnd

\* C4: the sequence ends with a gap exactly when the largest end offset of
\* all steps is below total, and that gap is [cursor, total).  Stated on
\* runs whose steps all have resolved ends, as C3.
C4_TrailingGapFromCursor ==
  (timelineData # <<>> /\ AllEndsResolved) =>
    LET cursor == SetMax({0} \cup {timelineData[q].actualEnd :
                                     q \in StepPositions(timelineData)})
        last == timelineData[Len(timelineData)]
    IN /\ last.isGap <=> cursor < Total(runData)
       /\ last.isGap =>
            last.actualStart = cursor /\ last.actualEnd = Total(runData)

\* C5: the last segment ends at max(0, completed_at - started_at) and no
\* segment ends later.
C5_EndsAtClampedTotal ==
  timelineData # <<>> =>
    /\ timelineData[Len(timelineData)].actualEnd = Max0(Total(runData))
    /\ \A q \in 1..Len(timelineData) :
         timelineData[q].actualEnd <= Max0(Total(runData))

\* C6: every gap segment has a strictly positive duration, whatever the
\* steps (overlapping, unresolved ends, outside the run).
C6_GapsArePositive ==
  \A q \in GapPositions(timelineData) : timelineData[q].duration > 0

\* gaps in a run that has both an unresolved end and an overlap
C6_Witness ==
  /\ runData # NullRun
  /\ GapPositions(timelineData) # {}
  /\ \E i \in 1..Len(runData.steps) : runData.steps[i].completed_at = NULL
  /\ \E i \in 1..(Len(runData.steps) - 1) :
       ToNumber(runData.steps[i].completed_at) > runData.steps[i + 1].started_at

\* C7: the stored steps are the response's steps in ascending start order,
\* and steps with equal start keep their order in the response.
C7_StoredStepsStablySorted ==
  runData # NullRun =>
    /\ {runData.steps[i].id : i \in 1..Len(runData.steps)} = 1..Len(runData.steps)
    /\ \A i, j \in 1..Len(runData.steps) :
         i < j =>
           /\ runData.steps[i].started_at <= runData.steps[j].started_at
           /\ runData.steps[i].started_at = runData.steps[j].started_at
                => runData.steps[i].id < runData.steps[j].id

\* a response that arrived latest step first
C7_Witness ==
  /\ runData # NullRun
  /\ Len(runData.steps) = 2
  /\ runData.steps[1].id = 2
  /\ runData.steps[1].started_at < runData.steps[2].started_at

\* C8: the step that begins a fetch (loading goes from false to true) sets
\* the selected index to null.
C8_FetchClearsSelection ==
  [][(~loading /\ loading') => selectedStepIndex' = NULL]_vars

\* C9: the selected index is null or a position of the loaded step list.
C9_SelectedInRange ==
  \/ selectedStepIndex = NULL
  \/ /\ runData # NullRun
     /\ 0 <= selectedStepIndex
     /\ selectedStepIndex < Len(runData.steps)

\* C10: a click on a gap bar leaves the selected index and the scroll
\* position as they were.
C10_GapClickIsNoOp ==
  [][clicked' = GapIndex =>
       /\ selectedStepIndex' = selectedStepIndex
       /\ scrollTarget' = scrollTarget]_vars

\* a gap was clicked while a step was selected
C10_Witness == clicked = GapIndex /\ selectedStepIndex # NULL

\* C11: a click on a step bar sets the selected index (and the scroll
\* request) to that bar's index, whatever was selected before: another
\* index is replaced, the same index stays.
C11_SelectReplaces ==
  [][(clicked' # NULL /\ clicked' # GapIndex) =>
       /\ selectedStepIndex' = clicked'
       /\ scrollTarget' = clicked']_vars

\* the second step was clicked and is the selection
C11_Witness ==
  clicked = 1 /\ selectedStepIndex = 1 /\ Len(runData.steps) = 2

\* C12: right after select(k) exactly one segment is marked selected, the
\* step segment with index k, and the companion list marks position k and
\* no other.
C12_OneSegmentSelected ==
  (clicked # NULL /\ clicked # GapIndex) =>
    /\ {p \in StepPositions(timelineData) : timelineData[p].isSelected}
         = {p \in StepPositions(timelineData) : timelineData[p].index = clicked}
    /\ Cardinality({p \in StepPositions(timelineData) :
                      timelineData[p].isSelected}) = 1
    /\ {i \in 0..(Len(runData.steps) - 1) : listHighlight(i)} = {clicked}

\* select(1) on a timeline of two steps and at least one gap
C12_Witness ==
  /\ clicked = 1
  /\ Len(runData.steps) = 2
  /\ GapPositions(timelineData) # {}

\* C13: an unselected step bar of index i is filled with palette entry
\* i mod 5 however many gaps precede it, the selected one with the
\* highlight colour, a gap with the neutral colour.
C13_PaletteByIndex ==
  \A p \in 1..Len(timelineData) :
    barFill(timelineData, p) =
      IF timelineData[p].isGap THEN "#e0e0e0"
      ELSE IF timelineData[p].isSelected THEN "#ff0000"
      ELSE palette[(timelineData[p].index % Len(palette)) + 1]

\* C14: every integer 0 <= ms < 1000, 0 included, is rendered "<ms>ms", and
\* "N/A" is returned for null / NaN only.
C14_MillisecondsBelowOneSecond ==
  formatted.done =>
    /\ formatted.ms \in 0..999 => formatted.text = ToString(formatted.ms) \o "ms"
    /\ formatted.text = "N/A" => formatted.ms = NULL

\* C15: from 60000 ms on the rounding carry is normalised: the text is that
\* of the duration rounded to whole seconds, so the seconds shown are 1..59
\* and a remainder rounding to 60 becomes one more minute.
C15_CarryNormalised ==
  (formatted.done /\ formatted.ms # NULL /\ formatted.ms >= 60000) =>
    LET rounded == (formatted.ms + 500) \div 1000
        m == rounded \div 60
        sec == rounded % 60
    IN formatted.text = IF sec = 0 THEN ToString(m) \o "m"
                        ELSE ToString(m) \o "m " \o ToString(sec) \o "s"

Near(a, b, d) == a - b <= d /\ b - a <= d

\* C16: the range rules.  1000 <= ms < 60000: whole seconds without a
\* decimal point, otherwise the nearest tenth of a second with one decimal;
\* ms >= 60000: floor(ms / 60000) minutes and the remainder rounded to
\* seconds, "{m}m {s}s" when that is not zero and "{m}m" when it is; and
\* the five examples.
C16_RangeRules ==
  (formatted.done /\ formatted.ms # NULL) =>
    LET ms == formatted.ms
        text == formatted.text
    IN /\ (1000 <= ms /\ ms < 60000 /\ ms % 1000 = 0) =>
            text = ToString(ms \div 1000) \o "s"
       /\ (1000 <= ms /\ ms < 60000 /\ ms % 1000 # 0) =>
            \E a \in 1..60, b \in 0..9 :
              /\ Near((10 * a + b) * 100, ms, 50)
              /\ text = ToString(a) \o "." \o ToString(b) \o "s"
       /\ ms >= 60000 =>
            \E sec \in 0..60 :
              /\ Near(sec * 1000, ms % 60000, 500)
              /\ text = IF sec > 0
                        THEN ToString(ms \div 60000) \o "m "
                               \o ToString(sec) \o "s"
                        ELSE ToString(ms \div 60000) \o "m"
       /\ ms = 999 => text = "999ms"
       /\ ms = 1000 => text = "1s"
       /\ ms = 1500 => text = "1.5s"
       /\ ms = 60000 => text = "1m"
       /\ ms = 90000 => text = "1m 30s"

\* the last example has been formatted
C16_Witness ==
  formatted.done /\ formatted.ms = 90000 /\ formatted.text = "1m 30s"

\* C17: the steps request is issued only after the run request answered
\* with success and a body decoded into a run record: no fetch waits for
\* its steps without a decoded run record.
C17_StepsOnlyAfterDecodedRun ==
  \A i \in 1..Len(fetches) :
    fetches[i].pc = "steps" => fetches[i].runInfo # NullRun

\* C18 as stated: a new fetch can be triggered while a previous fetch is
\* outstanding (and the older response can then overwrite the newer one).
C18_NewFetchWhileOutstanding ==
  fetches # <<>> => ENABLED fetchRunData

\* C18, amended: no fetch can be triggered while one is outstanding, so run
\* data is written only by the one outstanding fetch, which ends with that
\* write: no older response is left to overwrite it.
C18_OnlyTheOutstandingFetchWrites ==
  [][runData' # runData =>
       /\ ~ENABLED fetchRunData
       /\ Len(fetches) = 1
       /\ fetches' = <<>>]_vars

\* a loaded run is about to be replaced by the one outstanding fetch
C18_Witness ==
  /\ runData # NullRun
  /\ Len(fetches) = 1
  /\ fetches[1].pc = "steps"
  /\ fetches[1].runInfo # NullRun

\* C19: a fetch with an empty run id, thread id or credential sets the
\* validation message and nothing else: no request is issued, and run data,
\* loading, debug info and the selection are unchanged.
C19_ValidationFailureOnlySetsError ==
  [][(error # ErrRequired /\ error' = ErrRequired) =>
       UNCHANGED <<runData, loading, debugInfo, selectedStepIndex,
                   scrollTarget, fetches>>]_vars

\* validation failed with a run loaded, a step selected and a debug record
C19_Witness ==
  /\ error = ErrRequired
  /\ runData # NullRun
  /\ selectedStepIndex # NULL
  /\ debugInfo # NullInfo

\* C20: a fetch that ends has either failed, with the message set to a
\* non-empty value and the run data left alone, or stored the run data built
\* from its own run record with no message: it never ends with neither.
C20_FetchEndsWithErrorOrData ==
  [][Len(fetches') < Len(fetches) =>
       \/ /\ error' \in {ErrRun, ErrSteps, ErrType}
          /\ error' # NoError
          /\ runData' = runData
       \/ /\ error' = NoError
          /\ runData' # NullRun
          /\ \E i \in 1..Len(fetches) :
               /\ fetches[i].pc = "steps"
               /\ fetches[i].runInfo # NullRun
               /\ runData'.started_at = fetches[i].runInfo.created_at * 1000]_vars

\* a fetch whose run body was not JSON has ended with the caught TypeError
C20_Witness ==
  error = ErrType /\ ~loading /\ fetches = <<>>

\* C21: normalisation stores every non-null epoch-seconds value times 1000
\* and resolves every null end, the run's and each step's, so that no end
\* time of the stored run is null.
C21_NoNullEndIsStored ==
  runData # NullRun =>
    /\ runData.completed_at # NULL
    /\ \A i \in 1..Len(runData.steps) :
         /\ runData.steps[i].started_at = runData.steps[i].created_at * 1000
         /\ runData.steps[i].completed_at # NULL

\* the positions of S in order, as a sequence, restricted to step segments
RECURSIVE StepSegments(_)
StepSegments(S) ==
  IF S = <<>> THEN <<>>
  ELSE LET front == StepSegments(SubSeq(S, 1, Len(S) - 1))
       IN IF S[Len(S)].isGap THEN front ELSE Append(front, S[Len(S)])

\* C22: the step segment of the step at sorted position i (from 0) carries
\* index i and the label "{i+1}. {type}", "Unknown" standing for an absent
\* type; every gap carries the label "<unknown>", index -1 and isGap.
C22_SegmentLabels ==
  runData # NullRun =>
    /\ Len(StepSegments(timelineData)) = Len(runData.steps)
    /\ \A j \in 1..Len(StepSegments(timelineData)) :
         LET seg == StepSegments(timelineData)[j]
             type == runData.steps[j].type
         IN /\ seg.index = j - 1
            /\ seg.actualStart = runData.steps[j].started_at - runData.started_at
            /\ seg.name = ToString(j) \o ". "
                            \o (IF type = "" THEN "Unknown" ELSE type)
    /\ \A p \in GapPositions(timelineData) :
         /\ timelineData[p].name = "<unknown>"
         /\ timelineData[p].index = -1
         /\ timelineData[p].isGap = TRUE

\* a gap, then a second step without a type
C22_Witness ==
  /\ runData # NullRun
  /\ Len(runData.steps) = 2
  /\ GapPositions(timelineData) # {}
  /\ \E p \in StepPositions(timelineData) :
       timelineData[p].name = "2. Unknown"
  /\ \E p \in StepPositions(timelineData) :
       timelineData[p].name = "1. message_creation"

\* C23: with no run loaded, or a run without steps, the segment list is
\* empty, whatever the run's duration.
C23_NoStepsNoSegments ==
  (runData = NullRun \/ Len(runData.steps) = 0) => timelineData = <<>>

\* a run of positive duration and no steps has been stored
C23_Witness ==
  /\ runData # NullRun
  /\ Len(runData.steps) = 0
  /\ Total(runData) > 0
  /\ timelineData = <<>>

\* C24 as stated: every payload falls into exactly one of ToolCalls (type
\* tool_calls with a list), MessageCreation (type message_creation with a
\* message reference) and Unknown, a declared type whose sub-field is
\* absent or malformed being Unknown.
C24_MalformedIsUnknown ==
  (rendered.done /\ rendered.details # NoDetails) =>
    LET d == rendered.details
    IN /\ rendered.kind \in {"ToolCalls", "MessageCreation", "Unknown"}
       /\ rendered.kind = "ToolCalls" <=>
            (d.type = "tool_calls" /\ d.tool_calls \in {"empty", "list"})
       /\ rendered.kind = "MessageCreation" => d.type = "message_creation"
       /\ (d.type = "message_creation" /\ d.message_creation = "reference")
            => rendered.kind = "MessageCreation"
       /\ (d.type = "message_creation"
           /\ d.message_creation \in {"absent", "malformed"})
            => rendered.kind = "Unknown"

\* C24, amended: every payload falls into exactly one of ToolCalls (type
\* tool_calls with an array), MessageCreation (type message_creation with
\* any truthy message_creation sub-field, the id shown being a placeholder
\* when the sub-field holds none) and Unknown (everything else); a step
\* without a payload gets the "No step details available" placeholder.
C24_ClassificationIsTotal ==
  rendered.done =>
    LET d == rendered.details
    IN IF d = NoDetails THEN rendered.kind = "NoDetails"
       ELSE /\ rendered.kind \in {"ToolCalls", "MessageCreation", "Unknown"}
            /\ rendered.kind = "ToolCalls" <=>
                 (d.type = "tool_calls" /\ d.tool_calls \in {"empty", "list"})
            /\ rendered.kind = "MessageCreation" <=>
                 (d.type = "message_creation" /\ d.message_creation # "absent")
            /\ (rendered.kind = "MessageCreation"
                /\ d.message_creation # "reference")
                 => rendered.text = "Unknown Message ID"

\* a message_creation payload whose sub-field is a number has been rendered
C24_Witness ==
  /\ rendered.done
  /\ rendered.details # NoDetails
  /\ rendered.details.type = "message_creation"
  /\ rendered.details.message_creation = "malformed"
  /\ rendered.kind = "MessageCreation"

C26_AtMostOneFetchOutstanding ==
  /\ loading => ~ENABLED fetchRunData
  /\ fetches # <<>> => loading
  /\ Len(fetches) <= 1

\* a second fetch, started after a first one stored its run, awaits its run
C26_Witness ==
  /\ runData # NullRun
  /\ loading
  /\ Len(fetches) = 1
  /\ fetches[1].pc = "run"

\* C28: a fetch that fails leaves the stored run data as it was: run data
\* changes only in the step that ends a fetch whose two requests succeeded,
\* and not when a fetch starts or fails.
C28_FailedFetchKeepsRunData ==
  [][/\ runData' # runData =>
          /\ Len(fetches') < Len(fetches)
          /\ error' = NoError
          /\ \E i \in 1..Len(fetches) :
               fetches[i].pc = "steps" /\ fetches[i].runInfo # NullRun
     /\ (Len(fetches') # Len(fetches) /\ error' # NoError) =>
          runData' = runData
     /\ Len(fetches') > Len(fetches) => runData' = runData]_vars

\* the earlier run is on display together with the error of a later fetch
C28_Witness ==
  /\ runData # NullRun
  /\ error \in {ErrRun, ErrSteps, ErrType}
  /\ ~loading

\* C27: if every request is answered or rejected in the end, loading, once
\* true, becomes false again, and it is never true without a fetch
\* outstanding.
C27_LoadingEventuallyFalse ==
  /\ loading ~> ~loading
  /\ [](loading => fetches # <<>>)

\* a fetch has ended on the rejection of its steps request
C27_Witness ==
  ~loading /\ fetches = <<>> /\ error = ErrSteps

\* C29: for a non-empty step list there is exactly one step segment per
\* step, with indices 0..n-1 in ascending order; every segment ends at its
\* start plus its duration; and no two gaps are adjacent, so that gaps stand
\* before the first step segment, between two consecutive ones or after the
\* last, at most one in each place.
C29_OneStepSegmentPerStep ==
  (runData # NullRun /\ Len(runData.steps) > 0) =>
    /\ Len(StepSegments(timelineData)) = Len(runData.steps)
    /\ \A j \in 1..Len(StepSegments(timelineData)) :
         StepSegments(timelineData)[j].index = j - 1
    /\ \A p \in 1..Len(timelineData) :
         timelineData[p].actualEnd
           = timelineData[p].actualStart + timelineData[p].duration
    /\ \A p \in 1..(Len(timelineData) - 1) :
         ~(timelineData[p].isGap /\ timelineData[p + 1].isGap)

\* two steps with a gap before, between and after them
C29_Witness ==
  /\ runData # NullRun
  /\ Len(runData.steps) = 2
  /\ Len(timelineData) = 5
  /\ GapPositions(timelineData) = {1, 3, 5}

====
